---- MODULE Spec2Model ----
(***************************************************************************)
(* Model of models/EncoderDecoder.py: the factory                          *)
(* create_encoder_decoder_model and the three modules EncoderDecoder,      *)
(* Encoder and Decoder.                                                    *)
(*                                                                         *)
(* The framework's modules (recurrent cells, normalization, dropout,       *)
(* attention, linear layers) are modelled by the shapes they accept and    *)
(* produce and by what their result depends on.                            *)
(*                                                                         *)
(* A tensor is modelled by what the properties of the model definition     *)
(* depend on, not by its numbers:                                          *)
(*   null   the Python value is None                                       *)
(*   shape  its dimensions                                                 *)
(*   deps   the input timesteps its value was computed from                *)
(*   path   the recurrent cells its value went through, in order           *)
(*   ops    the modules applied to it since the last recurrent cell        *)
(*   times  the timesteps it holds along the sequence axis                 *)
(*   zero   it is all zeros                                                *)
(***************************************************************************)
EXTENDS Integers, Sequences, FiniteSets

\* ------------------------------------------------------------------ bounds
MaxLayers == 3
MaxCalls == 2
MaxBatch == 2
MaxSeqLen == 2

FeatureCounts == {2}
HiddenDims == {4, 6}
HeadCounts == {0, 2, 3}
DropoutPercents == {0, 50}
TeacherForcingPercents == {50}
CellTypes == {"GRU", "LSTM"}
Normalizations == {"None", "BatchNormalization", "LayerNormalization"}

\* ----------------------------------------------------------------- tensors
None == [null |-> TRUE, shape |-> <<>>, deps |-> {}, path |-> <<>>,
         ops |-> <<>>, times |-> <<>>, zero |-> FALSE]

\* torch.zeros(shape)
Zeros(shape) == [null |-> FALSE, shape |-> shape, deps |-> {}, path |-> <<>>,
                 ops |-> <<>>, times |-> <<>>, zero |-> TRUE]

Min(a, b) == IF a <= b THEN a ELSE b

\* The input X of shape (B, T, F): steps[j] names the data of timestep j.
\* X[:, :n, :]
SliceUpTo(X, n) ==
    LET steps == SubSeq(X.steps, 1, Min(n, Len(X.steps)))
    IN [null |-> FALSE, shape |-> <<X.B, Len(steps), X.F>>,
        deps |-> {steps[j] : j \in 1..Len(steps)}, path |-> <<>>,
        ops |-> <<>>, times |-> [j \in 1..Len(steps) |-> steps[j].t],
        zero |-> FALSE]

\* X[:, n:, :]
SliceFrom(X, n) ==
    LET steps == SubSeq(X.steps, n + 1, Len(X.steps))
    IN [null |-> FALSE, shape |-> <<X.B, Len(steps), X.F>>,
        deps |-> {steps[j] : j \in 1..Len(steps)}, path |-> <<>>,
        ops |-> <<>>, times |-> [j \in 1..Len(steps) |-> steps[j].t],
        zero |-> FALSE]

\* tensor[:, :1], the first timestep taken for the last
FirstStep(t) ==
    [t EXCEPT !.shape = <<t.shape[1], Min(1, t.shape[2]), t.shape[3]>>,
              !.times = SubSeq(t.times, 1, Min(1, Len(t.times)))]

\* tensor[:, -1:]
LastStep(t) ==
    [t EXCEPT !.shape = <<t.shape[1], Min(1, t.shape[2]), t.shape[3]>>,
              !.times = SubSeq(t.times, Len(t.times), Len(t.times))]

\* tensor.permute(a, b, c), dimensions numbered from 0 as in the source
Permute(t, a, b, c) ==
    [t EXCEPT !.shape = <<t.shape[a + 1], t.shape[b + 1], t.shape[c + 1]>>]

\* ------------------------------------------------------- framework modules
NoModule == [kind |-> "None", size |-> 0, name |-> "None", running |-> {}]

\* nn.BatchNorm1d(size) / nn.LayerNorm(size), bound to the attribute `name`.
\* running: the input timesteps the running statistics of a BatchNorm1d were
\* accumulated from (track_running_stats is left at its default).
NormModule(kind, size, name) ==
    [kind |-> kind, size |-> size, name |-> name, running |-> {}]

\* rnn_layer(input_size, hidden_size, num_layers=1, batch_first=True)
RnnModule(type, input_size, hidden_size) ==
    [type |-> type, input_size |-> input_size, hidden_size |-> hidden_size]

\* A normalization module accepts the tensor: BatchNorm1d wants the channel
\* axis second, LayerNorm wants the normalized axis last, and BatchNorm1d in
\* training mode wants more than one value per channel.
NormAccepts(mod, t, training) ==
    IF mod.kind = "BatchNorm1d"
    THEN /\ Len(t.shape) = 3
         /\ t.shape[2] = mod.size
         /\ (training => t.shape[1] * t.shape[3] > 1)
    ELSE /\ Len(t.shape) = 3
         /\ t.shape[3] = mod.size

\* module(tensor) for a normalization module: LayerNorm and BatchNorm1d in
\* training mode normalize with the statistics of the tensor, BatchNorm1d in
\* eval mode with its running statistics.
Normalize(mod, t, training) ==
    [t EXCEPT !.ops = Append(t.ops, mod.name),
              !.zero = FALSE,
              !.deps = IF mod.kind = "BatchNorm1d" /\ ~training
                       THEN t.deps \cup mod.running ELSE t.deps]

\* The normalization module after module(tensor): BatchNorm1d in training
\* mode folds the statistics of the tensor into its running statistics.
Observe(mod, t, training) ==
    IF mod.kind = "BatchNorm1d" /\ training
    THEN [mod EXCEPT !.running = mod.running \cup t.deps]
    ELSE mod

\* nn.Dropout(p)
DropoutModule(p) == [kind |-> "Dropout", p |-> p]

\* nn.Dropout(p)(tensor) in training mode: dropping zeros leaves zeros
Dropout(mod, t) == [t EXCEPT !.ops = Append(t.ops, "dropout")]

\* The recurrent cell accepts input X with initial state (h, c)
RnnAccepts(rnn, X, h, c) ==
    /\ Len(X.shape) = 3
    /\ X.shape[3] = rnn.input_size
    /\ h.null \/ h.shape = <<1, X.shape[1], rnn.hidden_size>>
    /\ c.null \/ c.shape = <<1, X.shape[1], rnn.hidden_size>>

\* rnn(X, (h, c)) / rnn(X, h) / rnn(X): output sequence, final hidden state and,
\* for an LSTM, final cell state. `tag` names the cell.
RnnForward(rnn, tag, X, h, c) ==
    LET deps == X.deps \cup h.deps \cup c.deps
        state == <<1, X.shape[1], rnn.hidden_size>>
        final == SubSeq(X.times, Len(X.times), Len(X.times))
    IN [out |-> [null |-> FALSE,
                 shape |-> <<X.shape[1], X.shape[2], rnn.hidden_size>>,
                 deps |-> deps, path |-> Append(X.path, tag), ops |-> <<>>,
                 times |-> X.times, zero |-> FALSE],
        hidden |-> [null |-> FALSE, shape |-> state, deps |-> deps,
                    path |-> Append(h.path, tag), ops |-> <<>>,
                    times |-> final, zero |-> FALSE],
        cell |-> IF rnn.type = "LSTM"
                 THEN [null |-> FALSE, shape |-> state, deps |-> deps,
                       path |-> Append(c.path, tag), ops |-> <<>>,
                       times |-> final, zero |-> FALSE]
                 ELSE None]

\* nn.Linear(in_features, out_features)
LinearModule(in_features, out_features) ==
    [in_features |-> in_features, out_features |-> out_features]

LinearAccepts(mod, t) == Len(t.shape) = 3 /\ t.shape[3] = mod.in_features

\* linear(tensor)
Linear(mod, t) ==
    [t EXCEPT !.shape = <<t.shape[1], t.shape[2], mod.out_features>>,
              !.ops = Append(t.ops, "linear"), !.zero = FALSE]

\* attn(query, keys, values) accepts its arguments
AttentionAccepts(embed_dim, query, keys, values) ==
    /\ query.shape[3] = embed_dim
    /\ keys.shape[3] = embed_dim
    /\ values.shape[3] = embed_dim
    /\ keys.shape[1] = query.shape[1]
    /\ values.shape = keys.shape

\* nn.MultiheadAttention(embed_dim, heads, batch_first=True)(query, keys, values)
Attention(query, keys, values) ==
    [query EXCEPT !.deps = query.deps \cup keys.deps \cup values.deps,
                  !.ops = Append(query.ops, "attn")]

\* torch.cat([a, b], axis=-1)
CatLast(a, b) ==
    [b EXCEPT !.shape = <<b.shape[1], b.shape[2], a.shape[3] + b.shape[3]>>,
              !.deps = a.deps \cup b.deps]
\* ------------------------------------------------------------ construction
\* The normalization module bound to attribute `name`, lines 105-114
NormalizationFor(normalization, hidden_dim, name) ==
    IF normalization = "BatchNormalization"
    THEN NormModule("BatchNorm1d", hidden_dim, name)
    ELSE IF normalization = "LayerNormalization"
         THEN NormModule("LayerNorm", hidden_dim, name)
         ELSE NoModule

\* range(num_rnn_layers) for range(num_rnn_layers - 1)
StackedRnnsOneTooMany(rnn_layer, hidden_dim, num_rnn_layers) ==
    IF num_rnn_layers > 1
    THEN [k \in 1..num_rnn_layers |-> RnnModule(rnn_layer, hidden_dim, hidden_dim)]
    ELSE <<>>

\* self.rnns of Encoder.__init__ / Decoder.__init__
StackedRnns(rnn_layer, hidden_dim, num_rnn_layers) ==
    IF num_rnn_layers > 1
    THEN [k \in 1..(num_rnn_layers - 1) |-> RnnModule(rnn_layer, hidden_dim, hidden_dim)]
    ELSE <<>>

\* dropout modules also for a single layer
DropoutListAnyDepth(num_rnn_layers, dropout) ==
    IF dropout > 0
    THEN [k \in 1..num_rnn_layers |-> DropoutModule(dropout)]
    ELSE <<>>

\* self.dropouts of Encoder.__init__ / Decoder.__init__
DropoutList(num_rnn_layers, dropout) ==
    IF num_rnn_layers > 1 /\ dropout > 0
    THEN [k \in 1..num_rnn_layers |-> DropoutModule(dropout)]
    ELSE <<>>

\* self.cell_normalization: instantiated for LSTM cells only
CellNormalizationFor(normalization, rnn_layer, hidden_dim) ==
    IF rnn_layer = "LSTM"
    THEN NormalizationFor(normalization, hidden_dim, "cell_normalization")
    ELSE NoModule

\* Encoder.__init__
NewEncoder(n_features, hidden_dim, rnn_layer, num_rnn_layers, dropout, normalization) ==
    [built |-> TRUE,
     hidden_dim |-> hidden_dim,
     n_features |-> n_features,
     hidden |-> None,
     cell_state |-> None,
     dropout |-> dropout,
     basic_rnn |-> RnnModule(rnn_layer, n_features, hidden_dim),
     rnns |-> StackedRnns(rnn_layer, hidden_dim, num_rnn_layers),
     dropouts |-> DropoutList(num_rnn_layers, dropout),
     out_normalization |-> NormalizationFor(normalization, hidden_dim, "out_normalization"),
     hidden_normalization |-> NormalizationFor(normalization, hidden_dim, "hidden_normalization"),
     cell_normalization |-> CellNormalizationFor(normalization, rnn_layer, hidden_dim)]

\* self.regression of Decoder.__init__
RegressionFor(hidden_dim, n_features, narrow_attn_heads) ==
    LinearModule(IF narrow_attn_heads > 0 THEN hidden_dim * 2 ELSE hidden_dim, n_features)

\* Decoder.__init__; attn is the head count of the attention module, 0 for None
NewDecoder(n_features, hidden_dim, rnn_layer, num_rnn_layers, dropout, normalization, narrow_attn_heads) ==
    [built |-> TRUE,
     hidden_dim |-> hidden_dim,
     n_features |-> n_features,
     hidden |-> None,
     cell_state |-> None,
     dropout |-> dropout,
     basic_rnn |-> RnnModule(rnn_layer, n_features, hidden_dim),
     rnns |-> StackedRnns(rnn_layer, hidden_dim, num_rnn_layers),
     dropouts |-> DropoutList(num_rnn_layers, dropout),
     out_normalization |-> NormalizationFor(normalization, hidden_dim, "out_normalization"),
     hidden_normalization |-> NormalizationFor(normalization, hidden_dim, "hidden_normalization"),
     cell_normalization |-> CellNormalizationFor(normalization, rnn_layer, hidden_dim),
     attn_keys |-> None,
     attn_values |-> None,
     attn |-> IF narrow_attn_heads > 0 THEN narrow_attn_heads ELSE 0,
     regression |-> RegressionFor(hidden_dim, n_features, narrow_attn_heads)]

\* EncoderDecoder.__init__
NewEncoderDecoder(input_len, target_len, teacher_forcing_prob) ==
    [built |-> TRUE,
     input_len |-> input_len,
     target_len |-> target_len,
     teacher_forcing_prob |-> teacher_forcing_prob,
     outputs |-> None]

\* the operands of % exchanged
HeadsDivideHiddenSwapped(hidden_dim, narrow_attn_heads) ==
    narrow_attn_heads > 0 => narrow_attn_heads % hidden_dim = 0

\* The assert of create_encoder_decoder_model
HeadsDivideHidden(hidden_dim, narrow_attn_heads) ==
    narrow_attn_heads > 0 => hidden_dim % narrow_attn_heads = 0
\* ------------------------------------------------------------------ Encoder
\* the entry permutation applied again on the way out
EncoderRestoreStateWrong(t) == Permute(t, 1, 2, 0)

\* Lines 129 and 131: state.permute(2, 0, 1).contiguous()
EncoderRestoreState(t) == Permute(t, 2, 0, 1)

\* Encoder.__apply_normalization. The result holds the returned output and the
\* module's hidden and cell state afterwards; ok is FALSE when a normalization
\* module rejects its argument, and the state is then the one at the raise.
EncoderApplyNormalization(self, tensor, training) ==
    LET batch == self.out_normalization.kind = "BatchNorm1d"
        t1 == IF batch THEN Permute(tensor, 0, 2, 1) ELSE tensor
        h1 == IF batch THEN Permute(self.hidden, 1, 2, 0) ELSE self.hidden
        c1 == IF batch /\ ~self.cell_state.null
              THEN Permute(self.cell_state, 1, 2, 0) ELSE self.cell_state
        okOut == NormAccepts(self.out_normalization, t1, training)
        output == Normalize(self.out_normalization, t1, training)
        out1 == Observe(self.out_normalization, t1, training)
        okHidden == h1.null \/ NormAccepts(self.hidden_normalization, h1, training)
        h2 == IF ~h1.null THEN Normalize(self.hidden_normalization, h1, training) ELSE h1
        hid1 == IF ~h1.null THEN Observe(self.hidden_normalization, h1, training)
                ELSE self.hidden_normalization
        doCell == ~c1.null /\ self.cell_normalization.kind # "None"
        okCell == doCell => NormAccepts(out1, c1, training)
        c2 == IF doCell THEN Normalize(out1, c1, training) ELSE c1
        out2 == IF doCell THEN Observe(out1, c1, training) ELSE out1
    IN IF ~okOut
       THEN [ok |-> FALSE, output |-> None, hidden |-> h1, cell_state |-> c1,
             out_normalization |-> self.out_normalization,
             hidden_normalization |-> self.hidden_normalization]
       ELSE IF ~okHidden
       THEN [ok |-> FALSE, output |-> None, hidden |-> h1, cell_state |-> c1,
             out_normalization |-> out1,
             hidden_normalization |-> self.hidden_normalization]
       ELSE IF ~okCell
       THEN [ok |-> FALSE, output |-> None, hidden |-> h2, cell_state |-> c1,
             out_normalization |-> out1, hidden_normalization |-> hid1]
       ELSE [ok |-> TRUE,
             output |-> IF batch THEN Permute(output, 0, 2, 1) ELSE output,
             hidden |-> IF batch THEN EncoderRestoreState(h2) ELSE h2,
             cell_state |-> IF batch /\ ~c2.null THEN EncoderRestoreState(c2) ELSE c2,
             out_normalization |-> out2, hidden_normalization |-> hid1]

\* Encoder.__apply_dropout
EncoderApplyDropout(self, index, tensor) ==
    [output |-> Dropout(self.dropouts[index + 1], tensor),
     hidden |-> IF ~self.hidden.null
                THEN Dropout(self.dropouts[index + 1], self.hidden) ELSE self.hidden,
     cell_state |-> IF ~self.cell_state.null
                    THEN Dropout(self.dropouts[index + 1], self.cell_state)
                    ELSE self.cell_state]

\* the first layer started from the state the module holds
EncoderInitialHiddenStale(self, index) == self.hidden

\* The initial hidden state Encoder.forward gives layer `index`: none for
\* basic_rnn (lines 144, 146), self.hidden for a stacked layer (153, 155)
EncoderInitialHidden(self, index) == IF index = 0 THEN None ELSE self.hidden

\* The recurrent call of layer `index` of Encoder.forward: lines 143-146 for the
\* first layer, 152-155 for a stacked one. Result: ok, rnn_out and the module.
EncoderRecurrent(self, index, tensor) ==
    LET rnn == IF index = 0 THEN self.basic_rnn ELSE self.rnns[index]
        h0 == EncoderInitialHidden(self, index)
        c0 == IF index = 0 \/ rnn.type # "LSTM" THEN None ELSE self.cell_state
        r == RnnForward(rnn, <<"enc", index>>, tensor, h0, c0)
        ok == /\ RnnAccepts(rnn, tensor, h0, c0)
              /\ (index > 0 /\ rnn.type = "LSTM") => ~self.cell_state.null
    IN [ok |-> ok,
        rnn_out |-> r.out,
        self |-> IF ~ok THEN self
                 ELSE IF rnn.type = "LSTM"
                 THEN [self EXCEPT !.hidden = r.hidden, !.cell_state = r.cell]
                 ELSE [self EXCEPT !.hidden = r.hidden]]

\* Lines 147-148 / 156-157 of Encoder.forward
EncoderNormalizationStep(self, tensor, training) ==
    IF self.out_normalization.kind # "None"
    THEN LET n == EncoderApplyNormalization(self, tensor, training)
         IN [ok |-> n.ok, rnn_out |-> n.output,
             self |-> [self EXCEPT !.hidden = n.hidden,
                                   !.cell_state = n.cell_state,
                                   !.out_normalization = n.out_normalization,
                                   !.hidden_normalization = n.hidden_normalization]]
    ELSE [ok |-> TRUE, rnn_out |-> tensor, self |-> self]

\* Lines 149-150 / 158-159 of Encoder.forward
EncoderDropoutStep(self, index, tensor, training) ==
    IF Len(self.dropouts) > 0 /\ training
    THEN LET d == EncoderApplyDropout(self, index, tensor)
         IN [rnn_out |-> d.output,
             self |-> [self EXCEPT !.hidden = d.hidden, !.cell_state = d.cell_state]]
    ELSE [rnn_out |-> tensor, self |-> self]

\* One layer of Encoder.forward: the recurrent cell, then normalization, then
\* dropout.
EncoderLayerStep(self, index, tensor, training) ==
    LET r == EncoderRecurrent(self, index, tensor)
        n == EncoderNormalizationStep(r.self, r.rnn_out, training)
        d == EncoderDropoutStep(n.self, index, n.rnn_out, training)
    IN IF ~r.ok THEN [ok |-> FALSE, rnn_out |-> None, self |-> r.self]
       ELSE IF ~n.ok THEN [ok |-> FALSE, rnn_out |-> None, self |-> n.self]
       ELSE [ok |-> TRUE, rnn_out |-> d.rnn_out, self |-> d.self]
\* ------------------------------------------------------------------ Decoder
\* Decoder.__init_attn_key_values
InitAttnKeyValues(self, hidden_seq) ==
    [self EXCEPT
        !.attn_keys = Linear(LinearModule(self.hidden_dim, self.hidden_dim), hidden_seq),
        !.attn_values = Linear(LinearModule(self.hidden_dim, self.hidden_dim), hidden_seq)]

\* a zero cell state whatever the Encoder returned
InitialCellStateAlwaysZero(hidden, cell_state) == Zeros(hidden.shape)

\* The cell state Decoder.init_hidden stores, lines 214-218
InitialCellState(hidden, cell_state) ==
    IF cell_state.null THEN Zeros(hidden.shape) ELSE cell_state

\* Decoder.init_hidden
InitHidden(self, hidden_seq, cell_state) ==
    LET s1 == IF self.attn # 0 THEN InitAttnKeyValues(self, hidden_seq) ELSE self
        hidden_final == LastStep(hidden_seq)
        hidden == Permute(hidden_final, 1, 0, 2)
    IN [s1 EXCEPT !.hidden = hidden,
                  !.cell_state = InitialCellState(hidden, cell_state)]

\* Lines 233 and 235: state.permute(2, 0, 1).contiguous()
DecoderRestoreState(t) == Permute(t, 2, 0, 1)

\* Decoder.__apply_normalization, as EncoderApplyNormalization
DecoderApplyNormalization(self, tensor, training) ==
    LET batch == self.out_normalization.kind = "BatchNorm1d"
        t1 == IF batch THEN Permute(tensor, 0, 2, 1) ELSE tensor
        h1 == IF batch THEN Permute(self.hidden, 1, 2, 0) ELSE self.hidden
        c1 == IF batch /\ ~self.cell_state.null
              THEN Permute(self.cell_state, 1, 2, 0) ELSE self.cell_state
        okOut == NormAccepts(self.out_normalization, t1, training)
        output == Normalize(self.out_normalization, t1, training)
        out1 == Observe(self.out_normalization, t1, training)
        okHidden == h1.null \/ NormAccepts(self.hidden_normalization, h1, training)
        h2 == IF ~h1.null THEN Normalize(self.hidden_normalization, h1, training) ELSE h1
        hid1 == IF ~h1.null THEN Observe(self.hidden_normalization, h1, training)
                ELSE self.hidden_normalization
        doCell == ~c1.null /\ self.cell_normalization.kind # "None"
        okCell == doCell => NormAccepts(out1, c1, training)
        c2 == IF doCell THEN Normalize(out1, c1, training) ELSE c1
        out2 == IF doCell THEN Observe(out1, c1, training) ELSE out1
    IN IF ~okOut
       THEN [ok |-> FALSE, output |-> None, hidden |-> h1, cell_state |-> c1,
             out_normalization |-> self.out_normalization,
             hidden_normalization |-> self.hidden_normalization]
       ELSE IF ~okHidden
       THEN [ok |-> FALSE, output |-> None, hidden |-> h1, cell_state |-> c1,
             out_normalization |-> out1,
             hidden_normalization |-> self.hidden_normalization]
       ELSE IF ~okCell
       THEN [ok |-> FALSE, output |-> None, hidden |-> h2, cell_state |-> c1,
             out_normalization |-> out1, hidden_normalization |-> hid1]
       ELSE [ok |-> TRUE,
             output |-> IF batch THEN Permute(output, 0, 2, 1) ELSE output,
             hidden |-> IF batch THEN DecoderRestoreState(h2) ELSE h2,
             cell_state |-> IF batch /\ ~c2.null THEN DecoderRestoreState(c2) ELSE c2,
             out_normalization |-> out2, hidden_normalization |-> hid1]

\* Decoder.__apply_dropout
DecoderApplyDropout(self, index, tensor) ==
    [output |-> Dropout(self.dropouts[index + 1], tensor),
     hidden |-> IF ~self.hidden.null
                THEN Dropout(self.dropouts[index + 1], self.hidden) ELSE self.hidden,
     cell_state |-> IF ~self.cell_state.null
                    THEN Dropout(self.dropouts[index + 1], self.cell_state)
                    ELSE self.cell_state]

\* The recurrent call of layer `index` of Decoder.forward: lines 247-250 for the
\* first layer, 256-260 for a stacked one. Every layer starts from the
\* module's hidden (and, for an LSTM, cell) state.
DecoderRecurrent(self, index, tensor) ==
    LET rnn == IF index = 0 THEN self.basic_rnn ELSE self.rnns[index]
        h0 == self.hidden
        c0 == IF rnn.type # "LSTM" THEN None ELSE self.cell_state
        r == RnnForward(rnn, <<"dec", index>>, tensor, h0, c0)
        ok == /\ RnnAccepts(rnn, tensor, h0, c0)
              /\ ~self.hidden.null
              /\ rnn.type = "LSTM" => ~self.cell_state.null
    IN [ok |-> ok,
        rnn_out |-> r.out,
        self |-> IF ~ok THEN self
                 ELSE IF rnn.type = "LSTM"
                 THEN [self EXCEPT !.hidden = r.hidden, !.cell_state = r.cell]
                 ELSE [self EXCEPT !.hidden = r.hidden]]

\* Lines 251-252 / 261-262 of Decoder.forward
DecoderNormalizationStep(self, tensor, training) ==
    IF self.out_normalization.kind # "None"
    THEN LET n == DecoderApplyNormalization(self, tensor, training)
         IN [ok |-> n.ok, rnn_out |-> n.output,
             self |-> [self EXCEPT !.hidden = n.hidden,
                                   !.cell_state = n.cell_state,
                                   !.out_normalization = n.out_normalization,
                                   !.hidden_normalization = n.hidden_normalization]]
    ELSE [ok |-> TRUE, rnn_out |-> tensor, self |-> self]

\* Lines 253-254 / 263-264 of Decoder.forward
DecoderDropoutStep(self, index, tensor, training) ==
    IF Len(self.dropouts) > 0 /\ training
    THEN LET d == DecoderApplyDropout(self, index, tensor)
         IN [rnn_out |-> d.output,
             self |-> [self EXCEPT !.hidden = d.hidden, !.cell_state = d.cell_state]]
    ELSE [rnn_out |-> tensor, self |-> self]

\* One layer of Decoder.forward
DecoderLayerStep(self, index, tensor, training) ==
    LET r == DecoderRecurrent(self, index, tensor)
        n == DecoderNormalizationStep(r.self, r.rnn_out, training)
        d == DecoderDropoutStep(n.self, index, n.rnn_out, training)
    IN IF ~r.ok THEN [ok |-> FALSE, rnn_out |-> None, self |-> r.self]
       ELSE IF ~n.ok THEN [ok |-> FALSE, rnn_out |-> None, self |-> n.self]
       ELSE [ok |-> TRUE, rnn_out |-> d.rnn_out, self |-> d.self]

\* the disabled line 268: only the last timestep reaches the regression layer
RegressionInputLastOnly(batch_first_output) == LastStep(batch_first_output)

\* The tensor the regression layer consumes, line 270 (line 268 is disabled)
RegressionInput(batch_first_output) == batch_first_output

\* Lines 265-274 of Decoder.forward: attention, then the regression layer
DecoderHead(self, batch_first_output) ==
    LET useAttn == self.attn # 0
        okAttn == useAttn => AttentionAccepts(self.hidden_dim, batch_first_output,
                                              self.attn_keys, self.attn_values)
        attn_output == Attention(batch_first_output, self.attn_keys, self.attn_values)
        joined == IF useAttn THEN CatLast(attn_output, batch_first_output)
                  ELSE batch_first_output
        okLinear == LinearAccepts(self.regression, RegressionInput(joined))
    IN IF okAttn /\ okLinear
       THEN [ok |-> TRUE, out |-> Linear(self.regression, RegressionInput(joined))]
       ELSE [ok |-> FALSE, out |-> None]
\* ------------------------------------------------------------ state machine
VARIABLES
    config,             \* the arguments create_encoder_decoder_model was called with
    pc,                 \* where the caller is: start, error, ready, encoder,
                        \* init_hidden, decoder
    encoder,            \* the Encoder instance
    decoder,            \* the Decoder instance
    model,              \* the EncoderDecoder instance
    training,           \* nn.Module.training of the model and its sub-modules
    X,                  \* argument of EncoderDecoder.forward
    source_seq,         \* locals of EncoderDecoder.forward
    target_seq,
    hidden_seq,
    cell_state,
    output,
    rnn_out,            \* local of Encoder.forward
    batch_first_output, \* local of Decoder.forward
    i,                  \* index of the next recurrent layer to run
    calls,              \* number of forward calls started
    result,             \* how the last forward call ended: none, returned, raised
    mode,               \* self.training as the last forward call started
    trace               \* the steps of the current forward call, in order

vars == <<config, pc, encoder, decoder, model, training, X, source_seq, target_seq,
          hidden_seq, cell_state, output, rnn_out, batch_first_output, i, calls,
          result, mode, trace>>

forwardLocals == <<X, source_seq, target_seq, hidden_seq, cell_state, output,
                   rnn_out, batch_first_output, i, calls, result, mode, trace>>

NoInput == [B |-> 0, F |-> 0, steps |-> <<>>]

NoConfig == [n_features |-> 0, hidden_dim |-> 0, rnn_layer_module |-> "None",
             rnn_layers |-> 0, seq_len |-> 0, teacher_forcing |-> 0,
             dropout |-> 0, normalization |-> "None", narrow_attn_heads |-> 0]

Init ==
    /\ config = NoConfig
    /\ pc = "start"
    /\ encoder = [built |-> FALSE]
    /\ decoder = [built |-> FALSE]
    /\ model = [built |-> FALSE]
    /\ training = TRUE
    /\ X = NoInput
    /\ source_seq = None
    /\ target_seq = None
    /\ hidden_seq = None
    /\ cell_state = None
    /\ output = None
    /\ rnn_out = None
    /\ batch_first_output = None
    /\ i = 0
    /\ calls = 0
    /\ result = "none"
    /\ mode = TRUE
    /\ trace = <<>>

\* create_encoder_decoder_model
CreateModel ==
    /\ pc = "start"
    /\ \E n_features \in FeatureCounts, hidden_dim \in HiddenDims,
          rnn_layer_module \in CellTypes, rnn_layers \in 1..MaxLayers,
          seq_len \in 1..MaxSeqLen, teacher_forcing \in TeacherForcingPercents,
          dropout \in DropoutPercents, normalization \in Normalizations,
          narrow_attn_heads \in HeadCounts :
         /\ config' = [n_features |-> n_features, hidden_dim |-> hidden_dim,
                       rnn_layer_module |-> rnn_layer_module,
                       rnn_layers |-> rnn_layers, seq_len |-> seq_len,
                       teacher_forcing |-> teacher_forcing, dropout |-> dropout,
                       normalization |-> normalization,
                       narrow_attn_heads |-> narrow_attn_heads]
         /\ IF ~HeadsDivideHidden(hidden_dim, narrow_attn_heads)
            THEN /\ pc' = "error"
                 /\ UNCHANGED <<encoder, decoder, model>>
            ELSE /\ pc' = "ready"
                 /\ encoder' = NewEncoder(n_features, hidden_dim, rnn_layer_module,
                                          rnn_layers, dropout, normalization)
                 /\ decoder' = NewDecoder(n_features, hidden_dim, rnn_layer_module,
                                          rnn_layers, dropout, normalization,
                                          narrow_attn_heads)
                 /\ model' = NewEncoderDecoder(seq_len, seq_len, teacher_forcing)
    /\ UNCHANGED <<training, forwardLocals>>

\* model.train() / model.eval() between forward calls
SetTraining ==
    /\ pc = "ready"
    /\ calls < MaxCalls
    /\ training' = ~training
    /\ UNCHANGED <<config, pc, encoder, decoder, model, forwardLocals>>

\* self.init_outputs(batch_size)
InitOutputs(self, n_features, batch_size) ==
    [self EXCEPT !.outputs = Zeros(<<batch_size, self.target_len, n_features>>)]

\* The input tensor of call `call`: shape (B, T, F), its timesteps named
NewInput(call, B, T, F) ==
    [B |-> B, F |-> F, steps |-> [j \in 1..T |-> [call |-> call, t |-> j]]]

\* Lines 43-45 of EncoderDecoder.forward, on an input of shape (B, 2L, F)
ForwardBegin ==
    /\ pc = "ready"
    /\ calls < MaxCalls
    /\ \E B \in 1..MaxBatch :
         LET x == NewInput(calls + 1, B, 2 * model.input_len, encoder.n_features)
         IN /\ X' = x
            /\ source_seq' = SliceUpTo(x, model.input_len)
            /\ target_seq' = SliceFrom(x, model.input_len)
            /\ model' = InitOutputs(model, encoder.n_features, B)
    /\ calls' = calls + 1
    /\ pc' = "encoder"
    /\ i' = 0
    /\ result' = "none"
    /\ mode' = training
    /\ trace' = << <<"init_outputs", 0>> >>
    /\ hidden_seq' = None
    /\ cell_state' = None
    /\ output' = None
    /\ rnn_out' = None
    /\ batch_first_output' = None
    /\ UNCHANGED <<config, encoder, decoder, training>>

\* Number of recurrent layers of an Encoder or Decoder
NumLayers(self) == 1 + Len(self.rnns)

\* One recurrent layer of Encoder.forward, called at line 48
EncoderLayer ==
    /\ pc = "encoder"
    /\ i < NumLayers(encoder)
    /\ LET r == EncoderLayerStep(encoder, i, IF i = 0 THEN source_seq ELSE rnn_out,
                                 training)
       IN /\ encoder' = r.self
          /\ rnn_out' = r.rnn_out
          /\ IF r.ok
             THEN /\ i' = i + 1
                  /\ trace' = Append(trace, <<"enc", i>>)
                  /\ UNCHANGED <<pc, result>>
             ELSE /\ pc' = "ready"
                  /\ result' = "raised"
                  /\ UNCHANGED <<i, trace>>
    /\ UNCHANGED <<config, decoder, model, training, X, source_seq, target_seq, hidden_seq,
                   cell_state, output, batch_first_output, calls, mode>>

\* Line 160 of Encoder.forward and the assignment of line 48
EncoderReturn ==
    /\ pc = "encoder"
    /\ i = NumLayers(encoder)
    /\ hidden_seq' = rnn_out
    /\ cell_state' = encoder.cell_state
    /\ pc' = "init_hidden"
    /\ trace' = Append(trace, <<"enc_return", 0>>)
    /\ UNCHANGED <<config, encoder, decoder, model, training, X, source_seq, target_seq,
                   output, rnn_out, batch_first_output, i, calls, result, mode>>

\* Line 51: self.decoder.init_hidden(hidden_seq, cell_state)
DecoderInitHidden ==
    /\ pc = "init_hidden"
    /\ decoder' = InitHidden(decoder, hidden_seq, cell_state)
    /\ pc' = "decoder"
    /\ i' = 0
    /\ trace' = Append(trace, <<"init_hidden", 0>>)
    /\ UNCHANGED <<config, encoder, model, training, X, source_seq, target_seq, hidden_seq,
                   cell_state, output, rnn_out, batch_first_output, calls, result, mode>>

\* the target window fed to the Decoder
DecoderInputTarget == target_seq

\* The argument of self.decoder(...) at line 78
DecoderInput == source_seq

\* One recurrent layer of Decoder.forward, called at line 78
DecoderLayer ==
    /\ pc = "decoder"
    /\ i < NumLayers(decoder)
    /\ LET r == DecoderLayerStep(decoder, i,
                                 IF i = 0 THEN DecoderInput ELSE batch_first_output,
                                 training)
       IN /\ decoder' = r.self
          /\ batch_first_output' = r.rnn_out
          /\ IF r.ok
             THEN /\ i' = i + 1
                  /\ trace' = Append(trace, <<"dec", i>>)
                  /\ UNCHANGED <<pc, result>>
             ELSE /\ pc' = "ready"
                  /\ result' = "raised"
                  /\ UNCHANGED <<i, trace>>
    /\ UNCHANGED <<config, encoder, model, training, X, source_seq, target_seq, hidden_seq,
                   cell_state, output, rnn_out, calls, mode>>

\* The value EncoderDecoder.forward returns, line 80 (line 79 is disabled)
ForwardResult(out) == out

\* Lines 265-274 of Decoder.forward and lines 78-80 of EncoderDecoder.forward
DecoderReturn ==
    /\ pc = "decoder"
    /\ i = NumLayers(decoder)
    /\ LET h == DecoderHead(decoder, batch_first_output)
       IN /\ output' = IF h.ok THEN ForwardResult(h.out) ELSE None
          /\ result' = IF h.ok THEN "returned" ELSE "raised"
    /\ pc' = "ready"
    /\ trace' = Append(trace, <<"dec_return", 0>>)
    /\ UNCHANGED <<config, encoder, decoder, model, training, X, source_seq, target_seq,
                   hidden_seq, cell_state, rnn_out, batch_first_output, i, calls, mode>>

Next ==
    \/ CreateModel
    \/ SetTraining
    \/ ForwardBegin
    \/ EncoderLayer
    \/ EncoderReturn
    \/ DecoderInitHidden
    \/ DecoderLayer
    \/ DecoderReturn

Spec == Init /\ [][Next]_vars
\* ------------------------------------------------------------- properties
Built == pc \notin {"start", "error"}
IsLSTM == config.rnn_layer_module = "LSTM"
Returned == pc = "ready" /\ result = "returned"
EncoderTags == [k \in 1..config.rnn_layers |-> <<"enc", k - 1>>]
DecoderTags == [k \in 1..config.rnn_layers |-> <<"dec", k - 1>>]
SourceSteps == {X.steps[j] : j \in 1..config.seq_len}
OutputShape == <<X.B, config.seq_len, config.n_features>>
SequenceShape == <<X.B, config.seq_len, config.hidden_dim>>
StateShape == <<1, X.B, config.hidden_dim>>
\* the Encoder, resp. the Decoder, has completed at least one layer of this call
AfterEncoderLayer == pc = "encoder" /\ i >= 1
AfterDecoderLayer == pc = "decoder" /\ i >= 1
EncoderDone == pc \in {"init_hidden", "decoder"} \/ Returned

\* C1 as stated: every forward call on an input of shape (B, 2L, F) returns a
\* tensor of shape (B, L, F), whatever the configuration and the mode.
C1_ForwardAlwaysReturns ==
    (pc = "ready" /\ calls > 0) => (result = "returned" /\ output.shape = OutputShape)

\* BatchNorm1d in training mode rejects the (1, H, 1) hidden state of a batch
\* of one
SingleRowBatchNorm ==
    config.normalization = "BatchNormalization" /\ mode /\ X.B = 1

\* C1 amended: a forward call on an input of shape (B, 2L, F) returns a tensor
\* of shape (B, L, F), except with batch normalization in training mode on a
\* batch of one, where the call raises.
C1_ForwardShape ==
    (pc = "ready" /\ calls > 0) =>
        IF SingleRowBatchNorm
        THEN result = "raised"
        ELSE result = "returned" /\ output.shape = OutputShape

C1_Witness ==
    /\ Returned
    /\ output.shape = OutputShape
    /\ X.B > 1 /\ config.seq_len > 1
    /\ IsLSTM /\ config.rnn_layers > 1 /\ config.narrow_attn_heads > 0
    /\ config.normalization = "BatchNormalization" /\ config.dropout > 0 /\ mode

\* C2: construction fails, with nothing built, exactly when narrow_attn_heads > 0
\* does not divide hidden_dim; with narrow_attn_heads = 0 it always succeeds.
C2_ConfigurationError ==
    pc # "start" =>
        /\ pc = "error" <=> (/\ config.narrow_attn_heads > 0
                             /\ config.hidden_dim % config.narrow_attn_heads # 0)
        /\ pc = "error" => ~encoder.built /\ ~decoder.built /\ ~model.built
        /\ pc # "error" => encoder.built /\ decoder.built /\ model.built
        /\ config.narrow_attn_heads = 0 => pc # "error"

C2_Witness ==
    /\ pc = "error"
    /\ config.narrow_attn_heads > 0
    /\ config.hidden_dim % config.narrow_attn_heads # 0
    /\ ~encoder.built

\* The LSTM half of C3: once a module's recurrent state is populated its cell
\* state is non-null, and the Decoder starts from the Encoder's cell state.
LstmCellStatePropagates ==
    /\ ~encoder.hidden.null => ~encoder.cell_state.null
    /\ ~decoder.hidden.null => ~decoder.cell_state.null
    /\ EncoderDone => ~encoder.cell_state.null
    /\ pc \in {"init_hidden", "decoder"} => cell_state = encoder.cell_state
    /\ (pc = "decoder" /\ i = 0) => decoder.cell_state = encoder.cell_state
    /\ Returned => ~decoder.cell_state.null

\* C3 as stated: LSTM cells propagate a non-null cell state, and with GRU cells
\* cell_state stays None in both the Encoder and the Decoder.
C3_GruCellStateStaysNone ==
    Built =>
        /\ IsLSTM => LstmCellStatePropagates
        /\ ~IsLSTM => encoder.cell_state.null /\ decoder.cell_state.null

\* C3 amended: LSTM cells propagate a non-null cell state; with GRU cells the
\* Encoder's cell_state stays None, and the Decoder's is None until
\* init_hidden and from then on the all-zero tensor init_hidden created, which
\* no recurrent cell or normalization ever writes.
C3_CellState ==
    Built =>
        /\ IsLSTM => LstmCellStatePropagates
        /\ ~IsLSTM =>
            /\ encoder.cell_state.null
            /\ cell_state.null
            /\ decoder.cell_state.null <=> decoder.hidden.null
            /\ ~decoder.cell_state.null =>
                /\ decoder.cell_state.zero
                /\ decoder.cell_state.path = <<>>
                /\ decoder.cell_state.deps = {}
                /\ decoder.cell_state.shape = decoder.hidden.shape

C3_Witness ==
    /\ Returned
    /\ IsLSTM
    /\ config.rnn_layers > 1
    /\ ~encoder.cell_state.null
    /\ decoder.cell_state.path = EncoderTags \o DecoderTags

\* C4: at entry to Decoder.forward the call has run Encoder.forward, then
\* init_hidden once; the Decoder's hidden state is the last timestep of the
\* Encoder's hidden sequence as (1, B, hidden_dim) and its cell state is the
\* Encoder's, or zeros of the hidden state's shape when there is none; the
\* call then runs Decoder.forward once.
C4_DecoderEntry ==
    /\ (pc = "decoder" /\ i = 0) =>
        /\ trace = << <<"init_outputs", 0>> >> \o EncoderTags
                   \o << <<"enc_return", 0>>, <<"init_hidden", 0>> >>
        /\ decoder.hidden.shape = StateShape
        /\ decoder.hidden.times = <<config.seq_len>>
        /\ decoder.hidden.deps = hidden_seq.deps
        /\ decoder.hidden.path = hidden_seq.path
        /\ decoder.hidden.ops = hidden_seq.ops
        /\ hidden_seq = rnn_out
        /\ decoder.cell_state = IF cell_state.null THEN Zeros(StateShape) ELSE cell_state
    /\ Returned =>
        trace = << <<"init_outputs", 0>> >> \o EncoderTags
                \o << <<"enc_return", 0>>, <<"init_hidden", 0>> >>
                \o DecoderTags \o << <<"dec_return", 0>> >>

C4_Witness ==
    /\ pc = "decoder" /\ i = 0
    /\ config.seq_len > 1
    /\ decoder.hidden.times = <<config.seq_len>>
    /\ decoder.cell_state.zero
    /\ calls > 1
\* The value was computed from timesteps of the current call's source window
FromCurrentCall(t) == \A d \in t.deps : d.call = calls /\ d \in SourceSteps

\* The recurrent state and the values of a call, each held to `From`
CallValues(From(_)) ==
    /\ Built =>
        /\ From(rnn_out)
        /\ From(batch_first_output)
        /\ From(hidden_seq)
        /\ From(cell_state)
        /\ From(output)
    /\ (AfterEncoderLayer \/ EncoderDone) =>
        /\ From(encoder.hidden)
        /\ From(encoder.cell_state)
    /\ (pc = "decoder" \/ Returned) =>
        /\ From(decoder.hidden)
        /\ From(decoder.cell_state)
        /\ From(decoder.attn_keys)
        /\ From(decoder.attn_values)

\* No layer of the call started from state an earlier call left, and the
\* outputs buffer is the one the call created
NoStaleRecurrentState ==
    /\ (AfterEncoderLayer \/ EncoderDone) =>
        encoder.hidden.path = SubSeq(EncoderTags, 1, Len(encoder.hidden.path))
    /\ Returned =>
        /\ encoder.hidden.path = EncoderTags
        /\ decoder.hidden.path = EncoderTags \o DecoderTags
        /\ IsLSTM => encoder.cell_state.path = EncoderTags
        /\ IsLSTM => decoder.cell_state.path = EncoderTags \o DecoderTags
        /\ model.outputs = Zeros(OutputShape)

\* C5 as stated: whatever calls came before, the state a call leaves in the
\* Encoder, the Decoder and the outputs buffer, and every value the call
\* computes, come from that call's input alone.
C5_NoCarryOver ==
    /\ CallValues(FromCurrentCall)
    /\ NoStaleRecurrentState

\* BatchNorm1d in eval mode normalizes with the running statistics that
\* earlier training-mode calls accumulated
UsesRunningStatistics == config.normalization = "BatchNormalization" /\ ~mode

\* The value was computed from the current call's source window, or, through
\* running statistics, from source windows of this and earlier calls
FromCallOrStatistics(t) ==
    IF UsesRunningStatistics
    THEN \A d \in t.deps : d.call <= calls /\ d.t <= config.seq_len
    ELSE FromCurrentCall(t)

\* C5 amended: every owned hidden/cell tensor is overwritten in each call
\* before it is read and the outputs buffer is re-created, so no recurrent
\* state of an earlier call is used; the state a call leaves comes from that
\* call's input alone, except that with batch normalization in eval mode it
\* also depends on the inputs of earlier training-mode calls through the
\* running statistics.
C5_NoRecurrentCarryOver ==
    /\ CallValues(FromCallOrStatistics)
    /\ NoStaleRecurrentState

C5_Witness ==
    /\ Returned
    /\ calls > 1
    /\ encoder.hidden.deps = SourceSteps
    /\ decoder.hidden.deps = SourceSteps
    /\ IsLSTM /\ decoder.cell_state.deps = SourceSteps
    /\ config.normalization = "BatchNormalization"

\* C6: the Decoder is fed the source window and its output is what forward
\* returns, so the returned value depends on the first input_len timesteps
\* only; the outputs buffer is zeros of shape (B, target_len, n_features) all
\* through the call and is not what is returned.
C6_SourceWindowOnly ==
    /\ Returned =>
        /\ {d \in output.deps : d.call = calls} = SourceSteps
        /\ \A d \in output.deps : d.t <= config.seq_len
        /\ output.path = DecoderTags
        /\ output.ops # <<>> /\ output.ops[Len(output.ops)] = "linear"
        /\ ~output.zero
    /\ pc = "decoder" =>
        /\ source_seq.deps = SourceSteps
        /\ target_seq.deps = {X.steps[j] : j \in 1..Len(X.steps)} \ SourceSteps
        /\ i >= 1 => {d \in batch_first_output.deps : d.call = calls} = SourceSteps
        /\ i >= 1 => \A d \in batch_first_output.deps : d.t <= config.seq_len
    /\ (Built /\ calls > 0) => model.outputs = Zeros(<<X.B, model.target_len, config.n_features>>)

C6_Witness ==
    /\ Returned
    /\ output.deps = SourceSteps
    /\ calls > 1
    /\ target_seq.deps # {}
    /\ config.narrow_attn_heads > 0
    /\ model.outputs.zero

\* C7: with batch normalization, after every layer of the Encoder and of the
\* Decoder the normalized output is again (B, L, H) and the hidden state and
\* a non-null cell state are again (1, B, H).
C7_BatchNormRestoresAxes ==
    (Built /\ config.normalization = "BatchNormalization") =>
        /\ (AfterEncoderLayer \/ EncoderDone) =>
            /\ rnn_out.shape = SequenceShape
            /\ "out_normalization" \in {rnn_out.ops[k] : k \in 1..Len(rnn_out.ops)}
            /\ encoder.hidden.shape = StateShape
            /\ encoder.hidden.ops # <<>> /\ encoder.hidden.ops[1] = "hidden_normalization"
            /\ ~encoder.cell_state.null => encoder.cell_state.shape = StateShape
        /\ (AfterDecoderLayer \/ Returned) =>
            /\ batch_first_output.shape = SequenceShape
            /\ "out_normalization" \in {batch_first_output.ops[k] :
                                          k \in 1..Len(batch_first_output.ops)}
            /\ decoder.hidden.shape = StateShape
            /\ decoder.hidden.ops # <<>> /\ decoder.hidden.ops[1] = "hidden_normalization"
            /\ ~decoder.cell_state.null => decoder.cell_state.shape = StateShape

C7_Witness ==
    /\ config.normalization = "BatchNormalization"
    /\ Returned
    /\ config.rnn_layers > 1
    /\ IsLSTM
    /\ X.B > 1 /\ config.seq_len > 1
    /\ encoder.cell_state.shape = StateShape
    /\ decoder.cell_state.shape = StateShape

\* The last module applied to the tensor was a dropout
Dropped(t) == t.ops # <<>> /\ t.ops[Len(t.ops)] = "dropout"

\* Dropout acted on the layer output, the hidden state and the cell state
AllDropped(out, self) ==
    /\ Dropped(out)
    /\ Dropped(self.hidden)
    /\ ~self.cell_state.null => Dropped(self.cell_state)

\* No dropout acted on any of them
NoneDropped(out, self) ==
    /\ ~Dropped(out)
    /\ ~Dropped(self.hidden)
    /\ ~Dropped(self.cell_state)

\* C8 as stated: with dropout > 0, after each recurrent layer dropout is applied
\* to output, hidden and cell state iff the module is in training mode, for
\* every num_rnn_layers >= 1; with dropout = 0 or in eval mode never.
C8_DropoutIffTraining ==
    /\ AfterEncoderLayer =>
        IF config.dropout > 0 /\ training
        THEN AllDropped(rnn_out, encoder) ELSE NoneDropped(rnn_out, encoder)
    /\ AfterDecoderLayer =>
        IF config.dropout > 0 /\ training
        THEN AllDropped(batch_first_output, decoder)
        ELSE NoneDropped(batch_first_output, decoder)

\* C8 amended: with dropout > 0 and num_rnn_layers > 1, after each recurrent
\* layer dropout is applied to output, hidden and cell state iff the module is
\* in training mode; with one layer, dropout = 0 or eval mode, never.
C8_DropoutIffTrainingStacked ==
    /\ AfterEncoderLayer =>
        IF config.dropout > 0 /\ config.rnn_layers > 1 /\ training
        THEN AllDropped(rnn_out, encoder) ELSE NoneDropped(rnn_out, encoder)
    /\ AfterDecoderLayer =>
        IF config.dropout > 0 /\ config.rnn_layers > 1 /\ training
        THEN AllDropped(batch_first_output, decoder)
        ELSE NoneDropped(batch_first_output, decoder)

C8_Witness ==
    /\ AfterDecoderLayer
    /\ i = config.rnn_layers
    /\ config.rnn_layers > 1
    /\ config.dropout > 0 /\ training
    /\ AllDropped(batch_first_output, decoder)
    /\ IsLSTM

\* The first module applied to the tensor since its recurrent cell
FirstOp(t) == IF t.ops = <<>> THEN "None" ELSE t.ops[1]

\* The claim of C9 for one module after one of its layers
NormalizedByOwnModules(out, self) ==
    /\ FirstOp(out) = "out_normalization"
    /\ FirstOp(self.hidden) = "hidden_normalization"
    /\ IF self.cell_normalization.kind # "None"
       THEN FirstOp(self.cell_state) = "cell_normalization"
       ELSE FirstOp(self.cell_state) \notin
                {"out_normalization", "hidden_normalization", "cell_normalization"}

\* C9: with normalization configured, after each recurrent layer the output is
\* normalized by out_normalization, the hidden state by hidden_normalization
\* and the cell state by cell_normalization when that module exists; without
\* it the cell state is not normalized.
C9_CellStateNormalizedByCellModule ==
    config.normalization # "None" =>
        /\ AfterEncoderLayer => NormalizedByOwnModules(rnn_out, encoder)
        /\ AfterDecoderLayer => NormalizedByOwnModules(batch_first_output, decoder)

\* C10: Encoder and Decoder each hold one first-layer cell n_features ->
\* hidden_dim and num_rnn_layers - 1 stacked cells hidden_dim -> hidden_dim, and
\* a forward call runs all layers once each, in order, each layer starting
\* from the state the previous one left.
C10_LayerStack ==
    Built =>
        /\ \A m \in {encoder, decoder} :
            /\ m.basic_rnn = RnnModule(config.rnn_layer_module, config.n_features,
                                       config.hidden_dim)
            /\ Len(m.rnns) = config.rnn_layers - 1
            /\ \A k \in 1..Len(m.rnns) :
                m.rnns[k] = RnnModule(config.rnn_layer_module, config.hidden_dim,
                                      config.hidden_dim)
        /\ EncoderDone =>
            /\ SubSeq(trace, 2, config.rnn_layers + 1) = EncoderTags
            /\ rnn_out.path = EncoderTags
            /\ encoder.hidden.path = EncoderTags
            /\ IsLSTM => encoder.cell_state.path = EncoderTags
        /\ Returned =>
            /\ trace = << <<"init_outputs", 0>> >> \o EncoderTags
                       \o << <<"enc_return", 0>>, <<"init_hidden", 0>> >>
                       \o DecoderTags \o << <<"dec_return", 0>> >>
            /\ batch_first_output.path = DecoderTags
            /\ decoder.hidden.path = EncoderTags \o DecoderTags
            /\ IsLSTM => decoder.cell_state.path = EncoderTags \o DecoderTags

C10_Witness ==
    /\ Returned
    /\ config.rnn_layers = 3
    /\ Len(encoder.rnns) = 2 /\ Len(decoder.rnns) = 2
    /\ encoder.hidden.path = EncoderTags
    /\ IsLSTM
====
